---- MODULE Spec2Model ----
(***************************************************************************)
(* A model of crates/proc-macro-api/src/msg/flat.rs: FlatTree::new (the    *)
(* breadth-first Writer and the span side table) and FlatTree::to_subtree  *)
(* (read_vec and the reverse-order Reader).                                *)
(*                                                                         *)
(* Vec indices are 0-based in the source and sequences are 1-based here:   *)
(* a source index k is position k + 1.  Option<T> is a sequence of length  *)
(* 0 (None) or 1 (Some).  A fallible computation returns [ok, val]; ok is  *)
(* FALSE where the source panics.                                          *)
(***************************************************************************)
EXTENDS Integers, Sequences, FiniteSets, TLC

(***************************************************************************)
(* Bounds of the model.                                                    *)
(***************************************************************************)
\* Words are u32 in the source; the model scales the word width down.
WordBits == 12
\* Largest number of nodes (subtrees and leaves) of an input tree.
MaxNodes == 4
\* Largest number of nodes of a tree whose wire structure the transport corrupts.
MaxWireNodes == 3
\* Versions range over 0..MaxVersion.
MaxVersion == 3
\* Words a corrupting transport may write range over 0..MaxTamperWord.
MaxTamperWord == 5

(***************************************************************************)
(* Words and the constants of crate::msg.                                  *)
(***************************************************************************)
WordMod == 2 ^ WordBits
\* `!0`
AllOnes == WordMod - 1
AsU32(x) == x % WordMod

ENCODE_CLOSE_SPAN_VERSION == 2
VARIABLE_SIZED_SPANS == 3

Versions == 0 .. MaxVersion
SpanWidths == {1, 3}

None == << >>
Some(x) == << x >>
Ok(v) == [ok |-> TRUE, val |-> v]
Panic == [ok |-> FALSE, val |-> << >>]

(***************************************************************************)
(* Spans.  A span of width 1 is a token id (one word).  A span of width 3  *)
(* is a tt::SpanData: anchor, range (start, end) and syntax context.       *)
(***************************************************************************)
CtxDummy == 0

into_u32(L, span) ==
    IF L = 1 THEN << span >>
    ELSE << span.anchor, span.start, span.end >>

\* TextRange::new asserts start <= end.
from_u32(L, input) ==
    IF L = 1 THEN Ok(input[1])
    ELSE IF input[2] > input[3] THEN Panic
    ELSE Ok([anchor |-> input[1], start |-> input[2], end |-> input[3],
             ctx |-> CtxDummy])

SpanDummy(L) ==
    IF L = 1 THEN AllOnes
    ELSE [anchor |-> AllOnes, start |-> 0, end |-> 0, ctx |-> CtxDummy]

(***************************************************************************)
(* Input trees: tt::Subtree<S> over small alphabets of delimiters and      *)
(* leaves, with at most MaxNodes nodes.                                    *)
(***************************************************************************)
SpanA(L) == IF L = 1 THEN 7 ELSE [anchor |-> 1, start |-> 2, end |-> 5, ctx |-> CtxDummy]
SpanB(L) == IF L = 1 THEN 9 ELSE [anchor |-> 4, start |-> 3, end |-> 3, ctx |-> 1]

Delimiter(open, close, kind) == [open |-> open, close |-> close, kind |-> kind]
Subtree(delimiter, token_trees) ==
    [tag |-> "Subtree", delimiter |-> delimiter, token_trees |-> token_trees]
Literal(text, span) == [tag |-> "Literal", text |-> text, span |-> span]
Ident(text, span) == [tag |-> "Ident", text |-> text, span |-> span]
Punct(char, spacing, span) ==
    [tag |-> "Punct", char |-> char, spacing |-> spacing, span |-> span]

Alphabets == {1, 2}

Delimiters(a, L) ==
    IF a = 1
    THEN { Delimiter(SpanA(L), SpanB(L), "Parenthesis"),
           Delimiter(SpanDummy(L), SpanDummy(L), "Invisible") }
    ELSE { Delimiter(SpanB(L), SpanA(L), "Brace"),
           Delimiter(SpanA(L), SpanDummy(L), "Bracket") }

Leaves(a, L) ==
    IF a = 1
    THEN { Ident("Foo", SpanA(L)), Literal("Foo", SpanB(L)),
           Punct(64, "Joint", SpanA(L)) }
    ELSE { Literal("", SpanDummy(L)), Ident("x", SpanB(L)),
           Punct(43, "Alone", SpanB(L)) }

RECURSIVE Forests(_, _, _)
\* The subtrees with exactly n nodes.
SubtreesOfSize(a, L, n) ==
    { Subtree(d, f) : d \in Delimiters(a, L), f \in Forests(a, L, n - 1) }

\* The child lists with exactly m nodes in total.
Forests(a, L, m) ==
    IF m = 0 THEN { << >> }
    ELSE UNION { { << t >> \o f :
                     t \in (IF j = 1 THEN Leaves(a, L) ELSE {})
                             \union SubtreesOfSize(a, L, j),
                     f \in Forests(a, L, m - j) } : j \in 1 .. m }

Trees(alphabets, L, n) ==
    UNION { SubtreesOfSize(a, L, k) : a \in alphabets, k \in 1 .. n }

(***************************************************************************)
(* State.                                                                  *)
(***************************************************************************)
VARIABLES
    tree, L, version,       \* the arguments of FlatTree::new
    decoder,                \* Option: the span width L and version of the to_subtree call
    pc,                     \* position in new / to_subtree
    work, string_table,     \* Writer
    subtree, literal, punct, ident, token_tree, text,
    cur,                    \* Writer::subtree's frame: idx, subtree, first_tt
    flat,                   \* Option<FlatTree>: new's result, to_subtree's self
    reader,                 \* Option<Reader>
    res, i,                 \* Reader::read's slots and loop index
    result                  \* Option<tt::Subtree<S>>: to_subtree's result

writerVars == << work, string_table, subtree, literal, punct, ident, token_tree, text, cur >>
readerVars == << reader, res, i, result >>
inputVars == << tree, L, version >>
vars == << inputVars, pc, writerVars, flat, decoder, readerVars >>

EmptyTable == [t \in {} |-> 0]

InitWith(alphabets, maxNodes) ==
    /\ L \in SpanWidths
    /\ version \in Versions
    /\ tree \in Trees(alphabets, L, maxNodes)
    /\ pc = "new"
    /\ work = << >>
    /\ string_table = EmptyTable
    /\ subtree = << >>
    /\ literal = << >>
    /\ punct = << >>
    /\ ident = << >>
    /\ token_tree = << >>
    /\ text = << >>
    /\ cur = None
    /\ flat = None
    /\ decoder = None
    /\ reader = None
    /\ res = << >>
    /\ i = 0
    /\ result = None

Init == InitWith(Alphabets, MaxNodes)

(***************************************************************************)
(* Writer.                                                                 *)
(***************************************************************************)
\* Mutation: the index of the last record pushed, not of the one to push.
EnqueueIdxLast(subtrees) == IF subtrees = << >> THEN 0 ELSE Len(subtrees) - 1

\* Writer::enqueue: the index it returns, and the Writer fields it changes.
EnqueueIdx(subtrees) == Len(subtrees)

EnqueueRepr(st) ==
    [open |-> st.delimiter.open, close |-> st.delimiter.close,
     kind |-> st.delimiter.kind, tt |-> << AllOnes, AllOnes >>]

\* Mutation: no lookup in string_table; every text is pushed.
InternAlways(table, texts, t) ==
    [idx |-> AsU32(Len(texts)),
     string_table |-> (t :> AsU32(Len(texts))) @@ table,
     text |-> Append(texts, t)]

\* Writer::intern: [idx, string_table, text].
Intern(table, texts, t) ==
    IF t \in DOMAIN table
    THEN [idx |-> table[t], string_table |-> table, text |-> texts]
    ELSE [idx |-> AsU32(Len(texts)),
          string_table |-> (t :> AsU32(Len(texts))) @@ table,
          text |-> Append(texts, t)]

\* Mutation: the tag is shifted, not the index.
IdxTagShiftsTag(idx, tag) == AsU32(idx + tag * 4)

\* `idx << 2 | tag` on a word.
IdxTag(idx, tag) == AsU32(idx * 4 + tag)

\* Mutation: the work queue is used as a stack.
PushFront(queue, item) == << item >> \o queue
\* Mutation: the pushed item is lost.
PushLost(queue, item) == queue

\* self.work.push_back((idx, subtree)).
PushBack(queue, item) == Append(queue, item)

\* w.write(subtree): self.enqueue(root).
WriteEnqueueRoot ==
    /\ pc = "new"
    /\ subtree' = Append(subtree, EnqueueRepr(tree))
    /\ work' = PushBack(work, << EnqueueIdx(subtree), tree >>)
    /\ pc' = "write"
    /\ UNCHANGED << inputVars, string_table, literal, punct, ident, token_tree,
                    text, cur, flat, decoder, readerVars >>

\* Mutation: one position too many is reserved.
ReserveOneMore(tts, n) == tts \o [k \in 1 .. n + 1 |-> AllOnes]
\* Mutation: the range ends at the last child, not after it.
ChildrenRangeInclusive(first_tt, n_tt) == << AsU32(first_tt), AsU32(first_tt + n_tt - 1) >>

\* The fill value of token_tree.resize and the children range of a record.
Reserve(tts, n) == tts \o [k \in 1 .. n |-> AllOnes]
ChildrenRange(first_tt, n_tt) == << AsU32(first_tt), AsU32(first_tt + n_tt) >>

\* work.pop_front() and the head of Writer::subtree, up to the loop.
WriteDequeue ==
    /\ pc = "write"
    /\ work # << >>
    /\ LET idx == Head(work)[1]
           st == Head(work)[2]
           first_tt == Len(token_tree)
           n_tt == Len(st.token_trees)
       IN /\ work' = Tail(work)
          /\ token_tree' = Reserve(token_tree, n_tt)
          /\ subtree' = [subtree EXCEPT ![idx + 1].tt = ChildrenRange(first_tt, n_tt)]
          /\ cur' = Some([idx |-> idx, subtree |-> st, first_tt |-> first_tt, k |-> 0])
    /\ pc' = "subtree"
    /\ UNCHANGED << inputVars, string_table, literal, punct, ident, text, flat,
                    decoder, readerVars >>

\* One iteration of `for child in &subtree.token_trees`.
WriteChild ==
    /\ pc = "subtree"
    /\ cur # None
    /\ cur[1].k < Len(cur[1].subtree.token_trees)
    /\ LET c == cur[1]
           child == c.subtree.token_trees[c.k + 1]
           interned == Intern(string_table, text, child.text)
           idx_tag ==
               CASE child.tag = "Subtree" -> IdxTag(AsU32(EnqueueIdx(subtree)), 0)
                 [] child.tag = "Literal" -> IdxTag(AsU32(Len(literal)), 1)
                 [] child.tag = "Punct" -> IdxTag(AsU32(Len(punct)), 2)
                 [] child.tag = "Ident" -> IdxTag(AsU32(Len(ident)), 3)
       IN /\ CASE child.tag = "Subtree" ->
                    /\ subtree' = Append(subtree, EnqueueRepr(child))
                    /\ work' = PushBack(work, << EnqueueIdx(subtree), child >>)
                    /\ UNCHANGED << literal, punct, ident, string_table, text >>
               [] child.tag = "Literal" ->
                    /\ literal' = Append(literal, [id |-> child.span, text |-> interned.idx])
                    /\ string_table' = interned.string_table
                    /\ text' = interned.text
                    /\ UNCHANGED << subtree, work, punct, ident >>
               [] child.tag = "Punct" ->
                    /\ punct' = Append(punct, [id |-> child.span, char |-> child.char,
                                               spacing |-> child.spacing])
                    /\ UNCHANGED << subtree, work, literal, ident, string_table, text >>
               [] child.tag = "Ident" ->
                    /\ ident' = Append(ident, [id |-> child.span, text |-> interned.idx])
                    /\ string_table' = interned.string_table
                    /\ text' = interned.text
                    /\ UNCHANGED << subtree, work, literal, punct >>
          /\ token_tree' = [token_tree EXCEPT ![c.first_tt + 1] = idx_tag]
          /\ cur' = Some([c EXCEPT !.first_tt = @ + 1, !.k = @ + 1])
    /\ pc' = "subtree"
    /\ UNCHANGED << inputVars, flat, decoder, readerVars >>

\* Writer::subtree returns to the `while let` loop of Writer::write.
WriteReturn ==
    /\ pc = "subtree"
    /\ cur # None
    /\ cur[1].k = Len(cur[1].subtree.token_trees)
    /\ cur' = None
    /\ pc' = "write"
    /\ UNCHANGED << inputVars, work, string_table, subtree, literal, punct, ident,
                    token_tree, text, flat, decoder, readerVars >>

(***************************************************************************)
(* The span side table and the record layouts.                             *)
(***************************************************************************)
\* Mutation: the side table is used at every width.
SerializeSpanTable(l, map, span) ==
    [word |-> AsU32(Len(map.spans)),
     map |-> [map EXCEPT !.spans = @ \o into_u32(l, span)]]

\* Mutation: the offset returned is the length after the append.
SerializeSpanAfter(l, map, span) ==
    LET u32s == into_u32(l, span)
    IN IF l = 1
       THEN [word |-> u32s[1], map |-> map]
       ELSE [word |-> AsU32(Len(map.spans) + Len(u32s)),
             map |-> [map EXCEPT !.spans = @ \o u32s]]

\* SpanMap::serialize_span: [word, map].
SerializeSpan(l, map, span) ==
    LET u32s == into_u32(l, span)
    IN IF l = 1
       THEN [word |-> u32s[1], map |-> map]
       ELSE [word |-> AsU32(Len(map.spans)),
             map |-> [map EXCEPT !.spans = @ \o u32s]]

\* SpanMap::deserialize_span; the slice panics past the end of the table.
DeserializeSpan(l, map, offset) ==
    IF l = 1 THEN from_u32(l, << offset >>)
    ELSE IF offset + l > Len(map.spans) THEN Panic
    ELSE from_u32(l, SubSeq(map.spans, offset + 1, offset + l))

KindCode(kind) ==
    CASE kind = "Invisible" -> 0
      [] kind = "Parenthesis" -> 1
      [] kind = "Brace" -> 2
      [] kind = "Bracket" -> 3

\* Mutation: an unrecognized code reads as Invisible.
KindOfCodeLenient(code) ==
    CASE code = 1 -> Ok("Parenthesis")
      [] code = 2 -> Ok("Brace")
      [] code = 3 -> Ok("Bracket")
      [] OTHER -> Ok("Invisible")

\* `other => panic!("bad kind {other}")`
KindOfCode(code) ==
    CASE code = 0 -> Ok("Invisible")
      [] code = 1 -> Ok("Parenthesis")
      [] code = 2 -> Ok("Brace")
      [] code = 3 -> Ok("Bracket")
      [] OTHER -> Panic

SpacingCode(spacing) ==
    CASE spacing = "Alone" -> 0
      [] spacing = "Joint" -> 1

\* `other => panic!("bad spacing {other}")`
SpacingOfCode(code) ==
    CASE code = 0 -> Ok("Alone")
      [] code = 1 -> Ok("Joint")
      [] OTHER -> Panic

\* u32 -> char: every scalar value but the surrogates.
CharOfCode(code) ==
    IF code < 55296 \/ (code >= 57344 /\ code <= 1114111) THEN Ok(code) ELSE Panic

\* Mutation: the close span is encoded from VARIABLE_SIZED_SPANS on.
SubtreeShapeLate(v) == IF v >= VARIABLE_SIZED_SPANS THEN "subtree5" ELSE "subtree4"

\* The record layout a version selects for subtree[].
SubtreeShape(v) == IF v >= ENCODE_CLOSE_SPAN_VERSION THEN "subtree5" ELSE "subtree4"

\* N of write_vec / read_vec.
RecordWidth(shape) ==
    CASE shape = "subtree5" -> 5
      [] shape = "subtree4" -> 4
      [] shape = "punct" -> 3
      [] shape = "literal" -> 2
      [] shape = "ident" -> 2

\* SubtreeRepr::write, ::write_with_close_span, LiteralRepr::write,
\* PunctRepr::write, IdentRepr::write: [words, map].
WriteRepr(shape, l, it, map) ==
    CASE shape = "subtree4" ->
           LET open == SerializeSpan(l, map, it.open)
           IN [words |-> << open.word, KindCode(it.kind), it.tt[1], it.tt[2] >>,
               map |-> open.map]
      [] shape = "subtree5" ->
           LET open == SerializeSpan(l, map, it.open)
               close == SerializeSpan(l, open.map, it.close)
           IN [words |-> << open.word, close.word, KindCode(it.kind), it.tt[1], it.tt[2] >>,
               map |-> close.map]
      [] shape = "punct" ->
           LET id == SerializeSpan(l, map, it.id)
           IN [words |-> << id.word, it.char, SpacingCode(it.spacing) >>, map |-> id.map]
      [] shape \in {"literal", "ident"} ->
           LET id == SerializeSpan(l, map, it.id)
           IN [words |-> << id.word, it.text >>, map |-> id.map]

\* write_vec: xs.into_iter().flat_map(|it| f(it, map)).collect(): [words, map].
RECURSIVE WriteVec(_, _, _, _)
WriteVec(shape, l, map, xs) ==
    IF xs = << >> THEN [words |-> << >>, map |-> map]
    ELSE LET one == WriteRepr(shape, l, Head(xs), map)
             rest == WriteVec(shape, l, one.map, Tail(xs))
         IN [words |-> one.words \o rest.words, map |-> rest.map]

\* SubtreeRepr::read, ::read_with_close_span, LiteralRepr::read,
\* PunctRepr::read, IdentRepr::read.
ReadRepr(shape, l, c, map) ==
    CASE shape = "subtree4" ->
           LET kind == KindOfCode(c[2])
               open == DeserializeSpan(l, map, c[1])
           IN IF kind.ok /\ open.ok
              THEN Ok([open |-> open.val, close |-> SpanDummy(l), kind |-> kind.val,
                       tt |-> << c[3], c[4] >>])
              ELSE Panic
      [] shape = "subtree5" ->
           LET kind == KindOfCode(c[3])
               open == DeserializeSpan(l, map, c[1])
               close == DeserializeSpan(l, map, c[2])
           IN IF kind.ok /\ open.ok /\ close.ok
              THEN Ok([open |-> open.val, close |-> close.val, kind |-> kind.val,
                       tt |-> << c[4], c[5] >>])
              ELSE Panic
      [] shape = "punct" ->
           LET spacing == SpacingOfCode(c[3])
               id == DeserializeSpan(l, map, c[1])
               char == CharOfCode(c[2])
           IN IF spacing.ok /\ id.ok /\ char.ok
              THEN Ok([id |-> id.val, char |-> char.val, spacing |-> spacing.val])
              ELSE Panic
      [] shape \in {"literal", "ident"} ->
           LET id == DeserializeSpan(l, map, c[1])
           IN IF id.ok THEN Ok([id |-> id.val, text |-> c[2]]) ELSE Panic

\* read_vec: every whole chunk is read, then the remainder must be empty.
ReadVec(shape, l, map, xs) ==
    LET N == RecordWidth(shape)
        n == Len(xs) \div N
        chunk(k) == SubSeq(xs, (k - 1) * N + 1, k * N)
        reprs == [k \in 1 .. n |-> ReadRepr(shape, l, chunk(k), map)]
    IN IF \E k \in 1 .. n : ~reprs[k].ok THEN Panic
       ELSE IF Len(xs) % N # 0 THEN Panic
       ELSE Ok([k \in 1 .. n |-> reprs[k].val])

(***************************************************************************)
(* FlatTree::new, after w.write(subtree).                                  *)
(***************************************************************************)
\* Mutation: the assertion compares with the other threshold.
NewAssertCloseSpan(l, v) == l = 1 \/ v >= ENCODE_CLOSE_SPAN_VERSION

NewAssert(l, v) == l = 1 \/ v >= VARIABLE_SIZED_SPANS

NewSpanMap(l, v) ==
    [serialize |-> (v >= VARIABLE_SIZED_SPANS /\ l # 1), span_size |-> AsU32(l),
     spans |-> << >>]

\* The struct literal: its fields are evaluated in the order written.
NewFlatTree(l, v) ==
    LET st == WriteVec(SubtreeShape(v), l, NewSpanMap(l, v), subtree)
        li == WriteVec("literal", l, st.map, literal)
        pu == WriteVec("punct", l, li.map, punct)
        id == WriteVec("ident", l, pu.map, ident)
    IN [subtree |-> st.words, literal |-> li.words, punct |-> pu.words,
        ident |-> id.words, token_tree |-> token_tree, text |-> text,
        span_map |-> id.map]

\* Writer::write's loop ends; the assertion; the FlatTree is returned.
FinishNew ==
    /\ pc = "write"
    /\ work = << >>
    /\ IF NewAssert(L, version)
       THEN /\ flat' = Some(NewFlatTree(L, version))
            /\ pc' = "encoded"
       ELSE /\ flat' = None
            /\ pc' = "panic_new_assert"
    /\ UNCHANGED << inputVars, writerVars, decoder, readerVars >>

(***************************************************************************)
(* FlatTree::to_subtree and Reader::read.                                  *)
(***************************************************************************)
\* Mutation: the recorded span width is not compared.
ToSubtreeAssertVersionOnly(ft, l, v) == v >= VARIABLE_SIZED_SPANS \/ l = 1

ToSubtreeAssert(ft, l, v) ==
    (v >= VARIABLE_SIZED_SPANS \/ l = 1) /\ AsU32(l) = ft.span_map.span_size

\* The Reader struct literal: Panic when a read_vec panics.
NewReader(ft, l, v) ==
    LET st == ReadVec(SubtreeShape(v), l, ft.span_map, ft.subtree)
        li == ReadVec("literal", l, ft.span_map, ft.literal)
        pu == ReadVec("punct", l, ft.span_map, ft.punct)
        id == ReadVec("ident", l, ft.span_map, ft.ident)
    IN IF st.ok /\ li.ok /\ pu.ok /\ id.ok
       THEN Ok([subtree |-> st.val, literal |-> li.val, punct |-> pu.val,
                ident |-> id.val, token_tree |-> ft.token_tree, text |-> ft.text])
       ELSE Panic

\* to_subtree up to the first iteration of Reader::read's loop.
ToSubtree(l, v) ==
    /\ pc \in {"encoded", "received"}
    /\ decoder' = Some([L |-> l, version |-> v])
    /\ LET ft == flat[1]
           rd == NewReader(ft, l, v)
       IN IF ~ToSubtreeAssert(ft, l, v)
          THEN /\ pc' = "panic_to_subtree_assert"
               /\ UNCHANGED << reader, res, i >>
          ELSE IF ~rd.ok
          THEN /\ pc' = "panic_read_vec"
               /\ UNCHANGED << reader, res, i >>
          ELSE /\ reader' = Some(rd.val)
               /\ res' = [k \in 1 .. Len(rd.val.subtree) |-> None]
               /\ i' = Len(rd.val.subtree)
               /\ pc' = "read"
    /\ UNCHANGED << inputVars, writerVars, flat, result >>

\* `idx_tag & 0b11` and `idx_tag >> 2` of the closure of Reader::read's map.
UnpackTag(idx_tag) == idx_tag % 4
UnpackIdx(idx_tag) == idx_tag \div 4

\* Mutation: a subtree is copied out of its slot, which stays populated.
ReadChildCopy(rd, idx_tag, slots) ==
    LET tag == UnpackTag(idx_tag)
        idx == UnpackIdx(idx_tag)
        fail == [ok |-> FALSE, val |-> << >>, res |-> slots]
        leaf(v) == [ok |-> TRUE, val |-> v, res |-> slots]
    IN CASE tag = 0 ->
              IF idx >= Len(slots) THEN fail
              ELSE IF slots[idx + 1] = None THEN fail
              ELSE leaf(slots[idx + 1][1])
         [] tag = 1 ->
              IF idx >= Len(rd.literal) THEN fail
              ELSE IF rd.literal[idx + 1].text >= Len(rd.text) THEN fail
              ELSE leaf(Literal(rd.text[rd.literal[idx + 1].text + 1],
                                rd.literal[idx + 1].id))
         [] tag = 2 ->
              IF idx >= Len(rd.punct) THEN fail
              ELSE leaf(Punct(rd.punct[idx + 1].char, rd.punct[idx + 1].spacing,
                              rd.punct[idx + 1].id))
         [] tag = 3 ->
              IF idx >= Len(rd.ident) THEN fail
              ELSE IF rd.ident[idx + 1].text >= Len(rd.text) THEN fail
              ELSE leaf(Ident(rd.text[rd.ident[idx + 1].text + 1],
                              rd.ident[idx + 1].id))

\* The closure of Reader::read's map: one tagged index; [ok, val, res].
ReadChild(rd, idx_tag, slots) ==
    LET tag == UnpackTag(idx_tag)
        idx == UnpackIdx(idx_tag)
        fail == [ok |-> FALSE, val |-> << >>, res |-> slots]
        leaf(v) == [ok |-> TRUE, val |-> v, res |-> slots]
    IN CASE tag = 0 ->
              IF idx >= Len(slots) THEN fail
              ELSE IF slots[idx + 1] = None THEN fail
              ELSE [ok |-> TRUE, val |-> slots[idx + 1][1],
                    res |-> [slots EXCEPT ![idx + 1] = None]]
         [] tag = 1 ->
              IF idx >= Len(rd.literal) THEN fail
              ELSE IF rd.literal[idx + 1].text >= Len(rd.text) THEN fail
              ELSE leaf(Literal(rd.text[rd.literal[idx + 1].text + 1],
                                rd.literal[idx + 1].id))
         [] tag = 2 ->
              IF idx >= Len(rd.punct) THEN fail
              ELSE leaf(Punct(rd.punct[idx + 1].char, rd.punct[idx + 1].spacing,
                              rd.punct[idx + 1].id))
         [] tag = 3 ->
              IF idx >= Len(rd.ident) THEN fail
              ELSE IF rd.ident[idx + 1].text >= Len(rd.text) THEN fail
              ELSE leaf(Ident(rd.text[rd.ident[idx + 1].text + 1],
                              rd.ident[idx + 1].id))

\* token_trees.iter().copied().map(..).collect(): left to right; [ok, val, res].
RECURSIVE ReadChildren(_, _, _)
ReadChildren(rd, entries, slots) ==
    IF entries = << >> THEN [ok |-> TRUE, val |-> << >>, res |-> slots]
    ELSE LET one == ReadChild(rd, Head(entries), slots)
             rest == ReadChildren(rd, Tail(entries), one.res)
         IN IF ~one.ok THEN one
            ELSE IF ~rest.ok THEN rest
            ELSE [ok |-> TRUE, val |-> << one.val >> \o rest.val, res |-> rest.res]

\* Mutation: the slice takes the entry at hi as well.
ChildrenSliceInclusive(rd, repr) ==
    IF repr.tt[1] > repr.tt[2] \/ repr.tt[2] >= Len(rd.token_tree) THEN Panic
    ELSE Ok(SubSeq(rd.token_tree, repr.tt[1] + 1, repr.tt[2] + 1))

\* &self.token_tree[lo..hi]: the slice panics when lo > hi or hi > len.
ChildrenSlice(rd, repr) ==
    IF repr.tt[1] > repr.tt[2] \/ repr.tt[2] > Len(rd.token_tree) THEN Panic
    ELSE Ok(SubSeq(rd.token_tree, repr.tt[1] + 1, repr.tt[2]))

\* One iteration of `for i in (0..self.subtree.len()).rev()`; the source's i
\* is i - 1 here.
ReadStep ==
    /\ pc = "read"
    /\ i > 0
    /\ LET rd == reader[1]
           repr == rd.subtree[i]
           slice == ChildrenSlice(rd, repr)
           kids == ReadChildren(rd, slice.val, res)
       IN IF slice.ok /\ kids.ok
          THEN /\ res' = [kids.res EXCEPT
                            ![i] = Some(Subtree(Delimiter(repr.open, repr.close, repr.kind),
                                                kids.val))]
               /\ i' = i - 1
               /\ pc' = "read"
          ELSE /\ pc' = "panic_read"
               /\ UNCHANGED << res, i >>
    /\ UNCHANGED << inputVars, writerVars, flat, decoder, reader, result >>

\* Mutation: a slot other than 0 that is still populated is fatal.
ReadResultStrict(slots) ==
    IF Len(slots) = 0 THEN [ok |-> FALSE, val |-> None, res |-> slots]
    ELSE IF slots[1] = None THEN [ok |-> FALSE, val |-> None, res |-> slots]
    ELSE IF \E k \in 2 .. Len(slots) : slots[k] # None
    THEN [ok |-> FALSE, val |-> None, res |-> slots]
    ELSE [ok |-> TRUE, val |-> slots[1], res |-> [slots EXCEPT ![1] = None]]

\* res[0].take().unwrap(): [ok, val, res].
ReadResult(slots) ==
    IF Len(slots) = 0 THEN [ok |-> FALSE, val |-> None, res |-> slots]
    ELSE IF slots[1] = None THEN [ok |-> FALSE, val |-> None, res |-> slots]
    ELSE [ok |-> TRUE, val |-> slots[1], res |-> [slots EXCEPT ![1] = None]]

\* The loop has ended: the root is taken out of slot 0 and returned.
ReadFinish ==
    /\ pc = "read"
    /\ i = 0
    /\ LET r == ReadResult(res)
       IN IF r.ok
          THEN /\ result' = r.val
               /\ res' = r.res
               /\ pc' = "done"
          ELSE /\ pc' = "panic_read"
               /\ UNCHANGED << result, res >>
    /\ UNCHANGED << inputVars, writerVars, flat, decoder, reader, i >>

(***************************************************************************)
(* The serialized form of a FlatTree (#[derive(Serialize)]).               *)
(***************************************************************************)
\* SpanMap::do_serialize, the function named by skip_serializing_if.
do_serialize(map) == map.serialize

\* The keys of the serialized FlatTree: a field with skip_serializing_if is
\* left out when the named function returns true.
SerializedKeys(ft) ==
    {"subtree", "literal", "punct", "ident", "token_tree", "text"}
        \union (IF do_serialize(ft.span_map) THEN {} ELSE {"span_map"})

\* The serialized SpanMap: `serialize` has skip_serializing.
SerializeSpanMap(map) == [span_size |-> map.span_size, spans |-> map.spans]

\* The serialized FlatTree, as a map from keys to values.
Serialize(ft) ==
    [key \in SerializedKeys(ft) |->
        IF key = "span_map" THEN SerializeSpanMap(ft.span_map) ELSE ft[key]]

(***************************************************************************)
(* A transport that corrupts the wire structure between the two calls.     *)
(***************************************************************************)
WordFields == {"subtree", "literal", "punct", "ident", "token_tree"}
TamperWords == 0 .. MaxTamperWord

\* One word of a record array or of token_tree overwritten, the last word of
\* an array lost, or the recorded span width changed.
Tampered(ft) ==
    UNION { { [ft EXCEPT ![f] = [@ EXCEPT ![p] = w]] :
                p \in 1 .. Len(ft[f]), w \in TamperWords } : f \in WordFields }
    \union { [ft EXCEPT ![f] = SubSeq(@, 1, Len(@) - 1)] : f \in WordFields }
    \union { [ft EXCEPT !.span_map.span_size = w] : w \in SpanWidths }

Tamper ==
    /\ pc = "encoded"
    /\ \E ft \in Tampered(flat[1]) \ {flat[1]} :
          flat' = Some(ft)
    /\ pc' = "received"
    /\ UNCHANGED << inputVars, writerVars, decoder, readerVars >>

(***************************************************************************)
(* Specifications.                                                         *)
(***************************************************************************)
\* A tree is encoded and the result is decoded by a peer of any span width
\* and version.
Next ==
    \/ WriteEnqueueRoot
    \/ WriteDequeue
    \/ WriteChild
    \/ WriteReturn
    \/ FinishNew
    \/ \E l \in SpanWidths, v \in Versions : ToSubtree(l, v)
    \/ ReadStep
    \/ ReadFinish

Spec == Init /\ [][Next]_vars

\* A tree over the first alphabet is encoded, the transport may corrupt the
\* wire structure, and a peer of the encoder's span width and version decodes
\* what it receives.
InitWire == InitWith({1}, MaxWireNodes)

NextWire ==
    \/ WriteEnqueueRoot
    \/ WriteDequeue
    \/ WriteChild
    \/ WriteReturn
    \/ FinishNew
    \/ Tamper
    \/ ToSubtree(L, version)
    \/ ReadStep
    \/ ReadFinish

SpecWire == InitWire /\ [][NextWire]_vars

\* FlatTree::new alone.  Writer::write is sequential code: while it is in
\* progress its next step is taken.
WriterLoop ==
    \/ WriteEnqueueRoot
    \/ WriteDequeue
    \/ WriteChild
    \/ WriteReturn

NextNew ==
    \/ WriterLoop
    \/ FinishNew

InitNew == InitWith({1}, MaxNodes)

SpecNew == InitNew /\ [][NextNew]_vars /\ WF_vars(WriterLoop)

\* FlatTree::new and then to_subtree with the same span width and version, on
\* what new returned.
NextPeer ==
    \/ WriterLoop
    \/ FinishNew
    \/ ToSubtree(L, version)
    \/ ReadStep
    \/ ReadFinish

SpecPeer == InitNew /\ [][NextPeer]_vars

(***************************************************************************)
(* Vocabulary of the properties.                                           *)
(***************************************************************************)
Encoded == flat # None
Decoding == decoder # None
\* The to_subtree call uses the span width and version of the new call.
SamePeer == decoder = Some([L |-> L, version |-> version])

RECURSIVE Depth(_)
Depth(t) ==
    IF t.tag # "Subtree" THEN 0
    ELSE 1 + (IF t.token_trees = << >> THEN 0
              ELSE LET ds == { Depth(t.token_trees[k]) : k \in 1 .. Len(t.token_trees) }
                   IN CHOOSE d \in ds : \A e \in ds : e <= d)

\* The subtree records of a wire structure read at version v: their number,
\* and the kind code and children range of record k (from 0).
WireSubtrees(ft, v) == Len(ft.subtree) \div RecordWidth(SubtreeShape(v))
WireKind(ft, v, k) ==
    ft.subtree[k * RecordWidth(SubtreeShape(v)) + RecordWidth(SubtreeShape(v)) - 2]
WireLo(ft, v, k) ==
    ft.subtree[k * RecordWidth(SubtreeShape(v)) + RecordWidth(SubtreeShape(v)) - 1]
WireHi(ft, v, k) ==
    ft.subtree[k * RecordWidth(SubtreeShape(v)) + RecordWidth(SubtreeShape(v))]
\* The positions (from 0) of token_tree in the children range of record k.
WireRange(ft, v, k) ==
    { p \in WireLo(ft, v, k) .. WireHi(ft, v, k) - 1 : p < Len(ft.token_tree) }
IsSubtreeRef(entry) == entry % 4 = 0
RefIdx(entry) == entry \div 4

(***************************************************************************)
(* C1.  Round trip.                                                        *)
(***************************************************************************)
\* C1 as stated: for every tree T and every version V compatible with T's
\* span width, FlatTree::new(T, V).to_subtree(V) is T, spans included.
C1_RoundTripExact ==
    (pc = "done" /\ SamePeer) => result = Some(tree)

\* What a span is after into_u32 and from_u32: a token id is itself; a
\* SpanData keeps its anchor and range and gets the dummy syntax context.
SpanOverWire(l, span) == IF l = 1 THEN span ELSE [span EXCEPT !.ctx = CtxDummy]

\* T as the wire format of width l and version v carries it.
RECURSIVE OverWire(_, _, _)
OverWire(l, v, t) ==
    IF t.tag = "Subtree"
    THEN Subtree(Delimiter(SpanOverWire(l, t.delimiter.open),
                           IF v >= ENCODE_CLOSE_SPAN_VERSION
                           THEN SpanOverWire(l, t.delimiter.close)
                           ELSE SpanDummy(l),
                           t.delimiter.kind),
                 [k \in 1 .. Len(t.token_trees) |-> OverWire(l, v, t.token_trees[k])])
    ELSE [t EXCEPT !.span = SpanOverWire(l, t.span)]

\* C1, amended: FlatTree::new(T, V).to_subtree(V) has T's delimiter kinds,
\* child order, leaf text, char and spacing, and T's spans except that a
\* width-3 span comes back with the dummy syntax context and, for
\* V < ENCODE_CLOSE_SPAN_VERSION, every close span comes back as the dummy span.
C1_RoundTrip ==
    (pc = "done" /\ SamePeer) => result = Some(OverWire(L, version, tree))

\* A tree three levels deep has made the round trip at width 3.
C1_Witness ==
    /\ pc = "done"
    /\ SamePeer
    /\ L = 3
    /\ Depth(tree) >= 3
    /\ result # Some(tree)

(***************************************************************************)
(* C2.  Index monotonicity.                                                *)
(***************************************************************************)
\* C2: in the wire structure new returns, a subtree-tagged entry in the
\* children range of record k references an index greater than k, and no
\* entry of token_tree references index 0.
C2_IndexMonotonic ==
    Encoded =>
        LET ft == flat[1]
        IN /\ \A k \in 0 .. WireSubtrees(ft, version) - 1 :
                 \A p \in WireRange(ft, version, k) :
                     IsSubtreeRef(ft.token_tree[p + 1]) =>
                         RefIdx(ft.token_tree[p + 1]) > k
           /\ \A p \in 1 .. Len(ft.token_tree) :
                 IsSubtreeRef(ft.token_tree[p]) => RefIdx(ft.token_tree[p]) # 0

\* A wire structure in which a record other than the root has a subtree child.
C2_Witness ==
    /\ pc = "encoded"
    /\ \E k \in 1 .. WireSubtrees(flat[1], version) - 1 :
          \E p \in WireRange(flat[1], version, k) :
              IsSubtreeRef(flat[1].token_tree[p + 1])

(***************************************************************************)
(* C3.  String dedup.                                                      *)
(***************************************************************************)
NoDuplicates(texts) ==
    \A a, b \in 1 .. Len(texts) : texts[a] = texts[b] => a = b

\* The text indices of the 2-word records of a wire array.
WireTextIndices(words) == { words[2 * k] : k \in 1 .. Len(words) \div 2 }

DedupState ==
    /\ NoDuplicates(text)
    /\ \A k \in 1 .. Len(literal) : literal[k].text < Len(text)
    /\ \A k \in 1 .. Len(ident) : ident[k].text < Len(text)
    /\ Encoded =>
          /\ NoDuplicates(flat[1].text)
          /\ \A t \in WireTextIndices(flat[1].literal) \union WireTextIndices(flat[1].ident) :
                 t < Len(flat[1].text)

\* A step keeps the entries of text[]; a record it pushes for a leaf indexes
\* that leaf's text.
DedupStep ==
    /\ Len(text') >= Len(text)
    /\ SubSeq(text', 1, Len(text)) = text
    /\ Len(literal') > Len(literal) =>
          /\ cur[1].subtree.token_trees[cur[1].k + 1].tag = "Literal"
          /\ text'[literal'[Len(literal')].text + 1]
               = cur[1].subtree.token_trees[cur[1].k + 1].text
    /\ Len(ident') > Len(ident) =>
          /\ cur[1].subtree.token_trees[cur[1].k + 1].tag = "Ident"
          /\ text'[ident'[Len(ident')].text + 1]
               = cur[1].subtree.token_trees[cur[1].k + 1].text

\* C3: after every step of encode and in the wire structure, text[] holds no
\* string twice, every text index of a literal or ident record is a position
\* of text[], and text[] at the index of a record is its leaf's text.
C3_StringDedup == []DedupState /\ [][DedupStep]_vars

\* A literal and an ident with the same text share the one entry of text[].
C3_Witness ==
    /\ pc = "encoded"
    /\ Len(flat[1].text) = 1
    /\ Len(literal) >= 1
    /\ Len(ident) >= 2
    /\ literal[1].text = ident[2].text

(***************************************************************************)
(* C4.  Width selection.                                                   *)
(***************************************************************************)
\* The span words of the wire array `words` of records of N words, with the
\* spans at the word offsets `at`, against the Writer's records.
SpanWordsAre(words, N, reprs, at, field) ==
    \A k \in 1 .. Len(reprs) : words[(k - 1) * N + at] = reprs[k][field]

\* C4: at span width 1 the side table of the wire structure is empty at every
\* version and each span word of a record is the span itself; at span width 3
\* and a version >= VARIABLE_SIZED_SPANS the length of the side table is a
\* multiple of 3.
C4_WidthSelection ==
    Encoded =>
        LET ft == flat[1]
            W == RecordWidth(SubtreeShape(version))
        IN /\ L = 1 =>
                /\ ft.span_map.spans = << >>
                /\ SpanWordsAre(ft.subtree, W, subtree, 1, "open")
                /\ W = 5 => SpanWordsAre(ft.subtree, W, subtree, 2, "close")
                /\ SpanWordsAre(ft.literal, 2, literal, 1, "id")
                /\ SpanWordsAre(ft.punct, 3, punct, 1, "id")
                /\ SpanWordsAre(ft.ident, 2, ident, 1, "id")
           /\ (L = 3 /\ version >= VARIABLE_SIZED_SPANS) =>
                Len(ft.span_map.spans) % 3 = 0

\* A tree with leaves encoded at width 1 and a version that supports the
\* side table.
C4_Witness ==
    /\ pc = "encoded"
    /\ L = 1
    /\ version >= VARIABLE_SIZED_SPANS
    /\ Len(literal) >= 1
    /\ Len(punct) >= 1

(***************************************************************************)
(* C5.  Fatal on mismatch at decode.                                       *)
(***************************************************************************)
DecodeMismatch ==
    \/ AsU32(decoder[1].L) # flat[1].span_map.span_size
    \/ (decoder[1].L # 1 /\ decoder[1].version < VARIABLE_SIZED_SPANS)

\* C5: to_subtree fails at call entry, before any record is read and with no
\* tree returned, when the recorded span width differs from the decoder's L
\* or when L # 1 and the version is below VARIABLE_SIZED_SPANS.
C5_DecodeMismatchFatal ==
    (Decoding /\ DecodeMismatch) =>
        /\ pc = "panic_to_subtree_assert"
        /\ reader = None
        /\ result = None

\* A wire structure of width 3 handed to a decoder of width 1.
C5_Witness ==
    /\ pc = "panic_to_subtree_assert"
    /\ decoder[1].L = 1
    /\ flat[1].span_map.span_size = 3

(***************************************************************************)
(* C6.  Fatal on mismatch at encode.                                       *)
(***************************************************************************)
\* C6: new fails and returns no wire structure when L # 1 and the version is
\* below VARIABLE_SIZED_SPANS, and only then: never when L = 1.
C6_EncodeMismatchFatal ==
    /\ Encoded => (L = 1 \/ version >= VARIABLE_SIZED_SPANS)
    /\ pc = "panic_new_assert" => (L # 1 /\ version < VARIABLE_SIZED_SPANS /\ ~Encoded)
    /\ (L # 1 /\ version < VARIABLE_SIZED_SPANS) =>
          pc \in {"new", "write", "subtree", "panic_new_assert"}

\* new has failed on a tree with children.
C6_Witness ==
    /\ pc = "panic_new_assert"
    /\ Len(token_tree) >= 2

(***************************************************************************)
(* C7.  A subtree record that nothing references.                          *)
(***************************************************************************)
LeftoverSlots(slots) == { k \in 2 .. Len(slots) : slots[k] # None }

\* C7 as stated: decode returns a tree only when every slot other than slot 0
\* has been emptied by a parent's take.
C7_LeftoverFatal ==
    pc = "done" => LeftoverSlots(res) = {}

\* C7, amended: when decode has processed all subtree indices it takes the
\* subtree out of slot 0 and returns it whenever there is a slot 0; the other
\* slots are not inspected, and one still populated (a record no token_tree
\* entry references) is left as it is and dropped.
C7_ReturnsSlotZero ==
    [][(pc = "read" /\ i = 0 /\ Len(res) > 0) =>
          /\ pc' = "done"
          /\ result' = res[1]
          /\ \A k \in 2 .. Len(res) : res'[k] = res[k]]_vars

\* decode has returned a tree and a slot other than 0 is still populated.
C7_Witness ==
    /\ pc = "done"
    /\ result # None
    /\ LeftoverSlots(res) # {}

(***************************************************************************)
(* C8.  Take of an empty slot.                                             *)
(***************************************************************************)
\* The positions of token_tree in the children range of the record the
\* loop is at.
CurRange ==
    LET repr == reader[1].subtree[i]
    IN IF ChildrenSlice(reader[1], repr).ok THEN repr.tt[1] + 1 .. repr.tt[2] ELSE {}

\* The subtree-tagged entry at p references a slot that is empty when the
\* entry is reached: not built yet, taken by a record processed before, or
\* taken by an earlier entry of the same range.
TakesEmptySlot(p) ==
    LET e == reader[1].token_tree[p]
    IN /\ IsSubtreeRef(e)
       /\ RefIdx(e) < Len(res)
       /\ \/ res[RefIdx(e) + 1] = None
          \/ \E q \in CurRange : q < p /\ reader[1].token_tree[q] = e

\* C8: when a subtree-tagged entry in the children range of the record being
\* read references an empty slot, decode fails and returns no tree.
C8_EmptyTakeFatal ==
    [][(pc = "read" /\ i > 0 /\ \E p \in CurRange : TakesEmptySlot(p)) =>
          (pc' = "panic_read" /\ result' = None)]_vars

\* decode has failed at a record with an entry that references a slot built
\* before and taken since.
C8_Witness ==
    /\ pc = "panic_read"
    /\ i > 0
    /\ \E p \in CurRange :
          /\ TakesEmptySlot(p)
          /\ RefIdx(reader[1].token_tree[p]) + 1 > i

(***************************************************************************)
(* C9.  Wire corruption.                                                   *)
(***************************************************************************)
BadKind(ft, v) ==
    \E k \in 0 .. WireSubtrees(ft, v) - 1 : WireKind(ft, v, k) \notin 0 .. 3
BadSpacing(ft) ==
    \E k \in 1 .. Len(ft.punct) \div 3 : ft.punct[3 * k] \notin {0, 1}
BadLength(ft, v) ==
    \/ Len(ft.subtree) % RecordWidth(SubtreeShape(v)) # 0
    \/ Len(ft.literal) % 2 # 0
    \/ Len(ft.punct) % 3 # 0
    \/ Len(ft.ident) % 2 # 0

\* C9: decode of a wire structure with a kind code outside 0..3, a spacing
\* code outside {0, 1} or an array whose length is no multiple of its record
\* width fails before Reader::read and returns no tree.
C9_CorruptionFatal ==
    (Decoding /\ (\/ BadKind(flat[1], decoder[1].version)
                  \/ BadSpacing(flat[1])
                  \/ BadLength(flat[1], decoder[1].version))) =>
        /\ pc \in {"panic_to_subtree_assert", "panic_read_vec"}
        /\ reader = None
        /\ result = None

\* read_vec has failed on a wire structure whose only defect is a kind code.
C9_Witness ==
    /\ pc = "panic_read_vec"
    /\ BadKind(flat[1], decoder[1].version)
    /\ ~BadSpacing(flat[1])
    /\ ~BadLength(flat[1], decoder[1].version)
    /\ ToSubtreeAssert(flat[1], decoder[1].L, decoder[1].version)

(***************************************************************************)
(* C10.  No sentinel survives encode.                                      *)
(***************************************************************************)
\* Writer::write's loop has found the work queue empty.
QueueDrained == pc \notin {"new", "subtree"} /\ work = << >>

NoSentinel ==
    QueueDrained =>
        /\ \A p \in 1 .. Len(token_tree) : token_tree[p] # AllOnes
        /\ \A k \in 1 .. Len(subtree) : subtree[k].tt # << AllOnes, AllOnes >>
        /\ Encoded =>
              /\ flat[1].token_tree = token_tree
              /\ \A k \in 0 .. WireSubtrees(flat[1], version) - 1 :
                    << WireLo(flat[1], version, k), WireHi(flat[1], version, k) >>
                      = subtree[k + 1].tt

\* A step reserves positions filled with !0 and writes at most one position,
\* which held !0; a position once written keeps its value.
WrittenOnce ==
    /\ Len(token_tree') >= Len(token_tree)
    /\ \A p \in Len(token_tree) + 1 .. Len(token_tree') : token_tree'[p] = AllOnes
    /\ \A p \in 1 .. Len(token_tree) :
          token_tree'[p] # token_tree[p] =>
              (token_tree[p] = AllOnes /\ token_tree'[p] # AllOnes)
    /\ Cardinality({ p \in 1 .. Len(token_tree) : token_tree'[p] # token_tree[p] }) <= 1

\* C10: when the work queue is empty every position of token_tree[] has been
\* written exactly once with a tagged index, none holds !0, and no subtree
\* record holds the placeholder range [!0, !0].
C10_NoSentinel == []NoSentinel /\ [][WrittenOnce]_vars

\* The loop has ended on a tree with three children in two subtrees.
C10_Witness ==
    /\ pc = "write"
    /\ work = << >>
    /\ Len(subtree) >= 2
    /\ Len(token_tree) >= 3

(***************************************************************************)
(* C11.  Scenario A.                                                       *)
(***************************************************************************)
\* The input of Scenario A: one Parenthesis subtree whose only child is the
\* ident "Foo".
ScenarioA ==
    /\ tree.delimiter.kind = "Parenthesis"
    /\ Len(tree.token_trees) = 1
    /\ tree.token_trees[1].tag = "Ident"
    /\ tree.token_trees[1].text = "Foo"

\* C11: the wire structure of Scenario A has text = ["Foo"], one ident record
\* with text index 0, token_tree = [0 << 2 | 0b11], and one subtree record
\* with kind code 1 and children range [0, 1).
C11_ScenarioA ==
    (Encoded /\ ScenarioA) =>
        LET ft == flat[1]
        IN /\ ft.text = << "Foo" >>
           /\ Len(ft.ident) = 2
           /\ ft.ident[2] = 0
           /\ ft.literal = << >>
           /\ ft.punct = << >>
           /\ ft.token_tree = << 3 >>
           /\ Len(ft.subtree) = RecordWidth(SubtreeShape(version))
           /\ WireKind(ft, version, 0) = 1
           /\ WireLo(ft, version, 0) = 0
           /\ WireHi(ft, version, 0) = 1

\* Scenario A has been encoded, with the shorter subtree record.
C11_Witness ==
    /\ pc = "encoded"
    /\ ScenarioA
    /\ version < ENCODE_CLOSE_SPAN_VERSION

(***************************************************************************)
(* C12.  Reverse-order decode of what encode produced.                     *)
(***************************************************************************)
\* C12: in the decode of a wire structure that encode produced, by the same
\* span width and version, no call fails; when the loop is at a record, no
\* subtree-tagged entry of its children range references an empty slot; and
\* when the loop has ended slot 0 holds a subtree, which decode returns.
C12_ReverseOrderDecode ==
    (Decoding /\ SamePeer) =>
        /\ pc \in {"read", "done"}
        /\ (pc = "read" /\ i > 0) =>
              /\ ChildrenSlice(reader[1], reader[1].subtree[i]).ok
              /\ \A p \in CurRange : ~TakesEmptySlot(p)
        /\ (pc = "read" /\ i = 0) => (Len(res) > 0 /\ res[1] # None)
        /\ pc = "done" => result # None

\* The loop is at the root of a tree three levels deep, and the slot of the
\* root's subtree child is populated.
C12_Witness ==
    /\ pc = "read"
    /\ SamePeer
    /\ i = 1
    /\ Depth(tree) >= 3
    /\ \E p \in CurRange :
          /\ IsSubtreeRef(reader[1].token_tree[p])
          /\ res[RefIdx(reader[1].token_tree[p]) + 1] # None

(***************************************************************************)
(* C13.  Single ownership of subtrees.                                     *)
(***************************************************************************)
\* The positions (from 1) of token_tree that hold a subtree-tagged entry
\* referencing record k (from 0).
RefsTo(tts, k) ==
    { p \in 1 .. Len(tts) : IsSubtreeRef(tts[p]) /\ RefIdx(tts[p]) = k }

\* The records that the subtree-tagged entries in the ranges of the records
\* of S reference, with S; and the records reached from S in n such steps.
Referenced(ft, v, S) ==
    S \union { RefIdx(ft.token_tree[p + 1]) :
                 p \in { q \in UNION { WireRange(ft, v, k) : k \in S } :
                           IsSubtreeRef(ft.token_tree[q + 1]) } }
RECURSIVE ReachedIn(_, _, _, _)
ReachedIn(ft, v, S, n) ==
    IF n = 0 THEN S ELSE ReachedIn(ft, v, Referenced(ft, v, S), n - 1)

SingleOwnerWire ==
    Encoded =>
        LET ft == flat[1]
            n == WireSubtrees(ft, version)
        IN /\ \A k \in 1 .. n - 1 : Cardinality(RefsTo(ft.token_tree, k)) = 1
           /\ ReachedIn(ft, version, {0}, n) = 0 .. n - 1

\* The number of subtrees in a tree, and in the trees of the populated slots.
RECURSIVE CountSubtrees(_)
RECURSIVE CountSubtreesIn(_)
CountSubtrees(t) ==
    IF t.tag # "Subtree" THEN 0 ELSE 1 + CountSubtreesIn(t.token_trees)
CountSubtreesIn(ts) ==
    IF ts = << >> THEN 0 ELSE CountSubtrees(Head(ts)) + CountSubtreesIn(Tail(ts))
RECURSIVE CountSlots(_)
CountSlots(slots) ==
    IF slots = << >> THEN 0
    ELSE (IF Head(slots) = None THEN 0 ELSE CountSubtrees(Head(slots)[1]))
           + CountSlots(Tail(slots))

\* The records (from 1) whose children range holds the entry that references
\* the record at k (from 1).
ParentsOf(rd, k) ==
    { j \in 1 .. Len(rd.subtree) :
        \E p \in rd.subtree[j].tt[1] + 1 .. rd.subtree[j].tt[2] :
            p \in RefsTo(rd.token_tree, k - 1) }

\* During the decode of what encode produced: a record not yet read has an
\* empty slot; a record read is in its slot until its parent is read and in
\* its parent's subtree after; the populated slots together hold each subtree
\* built so far once.
SingleOwnerDecode ==
    (Decoding /\ SamePeer /\ pc \in {"read", "done"}) =>
        /\ \A k \in 1 .. i : res[k] = None
        /\ \A k \in i + 1 .. Len(res) :
              res[k] # None <=>
                 (IF k = 1 THEN pc = "read" ELSE \A j \in ParentsOf(reader[1], k) : j <= i)
        /\ CountSlots(res) + (IF pc = "done" THEN CountSubtrees(result[1]) ELSE 0)
             = Len(res) - i

\* C13: in the wire structure new returns every subtree index other than 0
\* is referenced by exactly one subtree-tagged entry of token_tree and every
\* record is reachable from record 0; during its decode each subtree built is
\* in exactly one place, its slot or the child list of its parent.
C13_SingleOwner == SingleOwnerWire /\ SingleOwnerDecode

\* In the decode of a tree of at least three subtrees, one subtree built has
\* been taken by its parent and another is still in its slot.
C13_Witness ==
    /\ pc = "read"
    /\ SamePeer
    /\ i > 0
    /\ Len(res) >= 3
    /\ \E k \in i + 1 .. Len(res) : res[k] = None
    /\ \E k \in i + 1 .. Len(res) : res[k] # None

(***************************************************************************)
(* C14.  The version selects the shape of a subtree record.                *)
(***************************************************************************)
\* What deserialize_span makes of a span word of the wire structure at hand.
SpanOfWord(word) == DeserializeSpan(L, flat[1].span_map, word)

\* subtree[] has 5 words per subtree of the tree from
\* ENCODE_CLOSE_SPAN_VERSION on and 4 below: the open span, the close span in
\* the longer record, the kind code and the children range.
ShapeByVersion ==
    Encoded =>
        LET ft == flat[1]
            W == IF version >= ENCODE_CLOSE_SPAN_VERSION THEN 5 ELSE 4
            n == CountSubtrees(tree)
        IN /\ Len(ft.subtree) = W * n
           /\ Len(subtree) = n
           /\ \A k \in 1 .. n :
                 /\ SpanOfWord(ft.subtree[(k - 1) * W + 1])
                      = Ok(SpanOverWire(L, subtree[k].open))
                 /\ W = 5 => SpanOfWord(ft.subtree[(k - 1) * W + 2])
                               = Ok(SpanOverWire(L, subtree[k].close))
                 /\ ft.subtree[k * W - 2] = KindCode(subtree[k].kind)
                 /\ << ft.subtree[k * W - 1], ft.subtree[k * W] >> = subtree[k].tt

\* The close spans of the records decode has read are the spans `close(span)`
\* of the Writer's close spans from ENCODE_CLOSE_SPAN_VERSION on, and the
\* dummy span below.
CloseSpansRead(close(_)) ==
    (Decoding /\ SamePeer /\ pc \in {"read", "done"}) =>
        /\ Len(reader[1].subtree) = Len(subtree)
        /\ \A k \in 1 .. Len(subtree) :
              reader[1].subtree[k].close
                = (IF version >= ENCODE_CLOSE_SPAN_VERSION
                   THEN close(subtree[k].close) ELSE SpanDummy(L))

SameSpan(span) == span
SpanOverWireL(span) == SpanOverWire(L, span)

\* C14 as stated: the shape follows the version; decode at a version
\* >= ENCODE_CLOSE_SPAN_VERSION restores each close span, and decode at a
\* lower version sets each close span to the dummy span.
C14_CloseSpanRestored == ShapeByVersion /\ CloseSpansRead(SameSpan)

\* C14, amended: the shape follows the version; decode at a version
\* >= ENCODE_CLOSE_SPAN_VERSION restores of each close span what
\* SerializableSpan::into_u32 writes, a token id whole and a SpanData with the
\* dummy syntax context, and decode at a lower version sets each close span
\* to the dummy span.
C14_VersionShape == ShapeByVersion /\ CloseSpansRead(SpanOverWireL)

\* Records with a close span that has a syntax context have been read at
\* a version that encodes close spans.
C14_Witness ==
    /\ pc = "read"
    /\ SamePeer
    /\ L = 3
    /\ version >= ENCODE_CLOSE_SPAN_VERSION
    /\ Len(subtree) >= 2
    /\ \E k \in 1 .. Len(subtree) : subtree[k].close.ctx # CtxDummy

(***************************************************************************)
(* C15.  Presence of the span side table in the serialized form.           *)
(***************************************************************************)
\* C15: the serialized FlatTree has the key span_map exactly when the span
\* width is greater than 1 and the version is at least VARIABLE_SIZED_SPANS,
\* which is when the `serialize` flag of the SpanMap is set.
C15_SpanMapOnWire ==
    Encoded =>
        /\ flat[1].span_map.serialize <=> (L > 1 /\ version >= VARIABLE_SIZED_SPANS)
        /\ "span_map" \in DOMAIN Serialize(flat[1])
             <=> (L > 1 /\ version >= VARIABLE_SIZED_SPANS)

\* The serialized form of a wire structure with a populated side table.
C15_Witness ==
    /\ pc = "encoded"
    /\ flat[1].span_map.serialize
    /\ Len(flat[1].span_map.spans) >= 6
    /\ "span_map" \notin DOMAIN Serialize(flat[1])

(***************************************************************************)
(* C16.  Offsets into the span side table.                                 *)
(***************************************************************************)
\* The pairs << span word, span >> of the wire array `words` of records of N
\* words, with the span at the word offset `at`, and of the whole structure.
SpanFieldsOf(words, N, reprs, at, field) ==
    { << words[(k - 1) * N + at], reprs[k][field] >> : k \in 1 .. Len(reprs) }
SpanFields(ft) ==
    LET W == RecordWidth(SubtreeShape(version))
    IN SpanFieldsOf(ft.subtree, W, subtree, 1, "open")
         \union (IF W = 5 THEN SpanFieldsOf(ft.subtree, W, subtree, 2, "close") ELSE {})
         \union SpanFieldsOf(ft.literal, 2, literal, 1, "id")
         \union SpanFieldsOf(ft.punct, 3, punct, 1, "id")
         \union SpanFieldsOf(ft.ident, 2, ident, 1, "id")
\* The number of spans encoded: one or two per subtree, one per leaf.
SpanFieldCount ==
    (IF version >= ENCODE_CLOSE_SPAN_VERSION THEN 2 ELSE 1) * Len(subtree)
      + Len(literal) + Len(punct) + Len(ident)

\* C16: at a span width L > 1 every span word of a record of the wire
\* structure is a multiple of L with offset + L within the side table, the
\* span words are pairwise distinct, the side table has L words per span
\* encoded, and the L words at the offset of a span word are the words of
\* its span, which deserialize_span reads back.
C16_SideTableOffsets ==
    (Encoded /\ L > 1) =>
        LET ft == flat[1]
            spans == ft.span_map.spans
        IN /\ \A f \in SpanFields(ft) :
                 /\ f[1] % L = 0
                 /\ f[1] + L <= Len(spans)
                 /\ SubSeq(spans, f[1] + 1, f[1] + L) = into_u32(L, f[2])
                 /\ DeserializeSpan(L, ft.span_map, f[1]) = from_u32(L, into_u32(L, f[2]))
           /\ Cardinality({ f[1] : f \in SpanFields(ft) }) = SpanFieldCount
           /\ Len(spans) = L * SpanFieldCount

\* A wire structure of width 3 with two subtrees, a literal and a punct.
C16_Witness ==
    /\ pc = "encoded"
    /\ L = 3
    /\ Len(subtree) >= 2
    /\ Len(literal) >= 1
    /\ Len(punct) >= 1
    /\ Len(flat[1].span_map.spans) = 18

(***************************************************************************)
(* C17.  Children ranges tile token_tree.                                  *)
(***************************************************************************)
\* The subtrees of the trees of a queue in breadth-first order.
SubtreeChildren(t) ==
    LET IsSubtree(c) == c.tag = "Subtree" IN SelectSeq(t.token_trees, IsSubtree)
RECURSIVE BreadthFirst(_)
BreadthFirst(queue) ==
    IF queue = << >> THEN << >>
    ELSE << Head(queue) >> \o BreadthFirst(Tail(queue) \o SubtreeChildren(Head(queue)))

\* C17: in the wire structure the children range of record 0 starts at 0,
\* the range of each record starts where the range of the record before it
\* ends, the last range ends at the length of token_tree, and the length of
\* the range of a record is the number of children of its subtree, 0 for a
\* subtree without children.
C17_RangesTile ==
    Encoded =>
        LET ft == flat[1]
            n == WireSubtrees(ft, version)
            sts == BreadthFirst(<< tree >>)
        IN /\ n = Len(sts)
           /\ WireLo(ft, version, 0) = 0
           /\ \A k \in 0 .. n - 2 : WireLo(ft, version, k + 1) = WireHi(ft, version, k)
           /\ WireHi(ft, version, n - 1) = Len(ft.token_tree)
           /\ \A k \in 0 .. n - 1 :
                 WireHi(ft, version, k) - WireLo(ft, version, k)
                   = Len(sts[k + 1].token_trees)

\* A wire structure of three subtrees, one of them without children and not
\* the last.
C17_Witness ==
    /\ pc = "encoded"
    /\ WireSubtrees(flat[1], version) = 3
    /\ WireLo(flat[1], version, 1) = WireHi(flat[1], version, 1)
    /\ WireLo(flat[1], version, 2) < WireHi(flat[1], version, 2)

(***************************************************************************)
(* C18.  Breadth-first assignment of subtree indices.                      *)
(***************************************************************************)
\* The number of subtrees dequeued so far: all those enqueued but the pending.
Dequeued == Len(subtree) - Len(work)

\* The work queue holds the indices not yet dequeued, in increasing order;
\* they end at the index pushed last, which was the length of subtree[].
WorkIncreasing ==
    \A j \in 1 .. Len(work) : work[j][1] = Dequeued + j - 1

\* The subtree being written was dequeued after those of index 0, 1, ...
DequeuedInOrder ==
    (pc = "subtree" /\ cur # None) => cur[1].idx = Dequeued - 1

\* The depth of the record at k (from 1): the root has depth 0, and a record
\* is one deeper than the record whose children range references it.  The
\* records are those of the tree's subtrees in breadth-first order, each has
\* its parent before it, and the depth does not decrease along the indices.
WriterParentsOf(k) ==
    { j \in 1 .. Len(subtree) :
        \E p \in subtree[j].tt[1] + 1 .. subtree[j].tt[2] :
            p \in RefsTo(token_tree, k - 1) }
RECURSIVE RecordDepth(_)
RecordDepth(k) ==
    IF k = 1 THEN 0 ELSE 1 + RecordDepth(CHOOSE j \in WriterParentsOf(k) : TRUE)

DepthByIndex ==
    QueueDrained =>
        LET sts == BreadthFirst(<< tree >>)
        IN /\ Len(subtree) = Len(sts)
           /\ \A k \in 1 .. Len(subtree) :
                 EnqueueRepr(sts[k]) = [subtree[k] EXCEPT !.tt = << AllOnes, AllOnes >>]
           /\ \A k \in 2 .. Len(subtree) :
                 \E j \in 1 .. k - 1 : WriterParentsOf(k) = {j}
           /\ \A k \in 2 .. Len(subtree) : RecordDepth(k - 1) <= RecordDepth(k)

\* C18: the work queue holds the pending subtree indices in strictly
\* increasing order, subtrees are dequeued in the order 0, 1, 2, ..., an
\* enqueued subtree gets the length of subtree[] as index, and a subtree at a
\* depth has a smaller index than every subtree at a greater depth.
C18_BreadthFirst == WorkIncreasing /\ DequeuedInOrder /\ DepthByIndex

\* Two subtrees are pending while a third, enqueued before them, is written.
C18_Witness ==
    /\ pc = "subtree"
    /\ cur[1].idx = 1
    /\ Len(work) = 2
    /\ cur[1].k = Len(cur[1].subtree.token_trees)

(***************************************************************************)
(* C19.  The writer terminates.                                            *)
(***************************************************************************)
\* The number of leaves of a kind in a tree.
RECURSIVE CountLeaves(_, _)
RECURSIVE CountLeavesIn(_, _)
CountLeaves(t, tag) ==
    IF t.tag = "Subtree" THEN CountLeavesIn(t.token_trees, tag)
    ELSE IF t.tag = tag THEN 1 ELSE 0
CountLeavesIn(ts, tag) ==
    IF ts = << >> THEN 0
    ELSE CountLeaves(Head(ts), tag) + CountLeavesIn(Tail(ts), tag)

\* When the loop finds the queue empty every subtree has been enqueued and
\* dequeued, and there is a record per subtree, per leaf of each kind, and a
\* position of token_tree per child.
WriterCounts ==
    QueueDrained =>
        /\ Len(subtree) = CountSubtrees(tree)
        /\ Dequeued = CountSubtrees(tree)
        /\ Len(literal) = CountLeaves(tree, "Literal")
        /\ Len(punct) = CountLeaves(tree, "Punct")
        /\ Len(ident) = CountLeaves(tree, "Ident")
        /\ Len(token_tree) = Len(subtree) - 1 + Len(literal) + Len(punct) + Len(ident)

\* A step enqueues at most one subtree and dequeues at most one; a dequeue
\* takes the oldest pending subtree and nothing else leaves the queue.
OnceThroughQueue ==
    /\ Len(subtree') \in {Len(subtree), Len(subtree) + 1}
    /\ \/ work' = work
       \/ work # << >> /\ work' = Tail(work)
       \/ Len(work') = Len(work) + 1 /\ SubSeq(work', 1, Len(work)) = work
                                     /\ Len(subtree') = Len(subtree) + 1

\* C19: for every tree the loop of Writer::write eventually finds the work
\* queue empty and stops; every subtree has then been enqueued once and
\* dequeued once, subtree[] has a record per subtree of the tree, and
\* literal[], punct[] and ident[] a record per leaf of their kind.
C19_WriterTerminates ==
    /\ <>QueueDrained
    /\ []WriterCounts
    /\ [][OnceThroughQueue]_vars

\* new has ended on a tree of two subtrees with leaves of two kinds.
C19_Witness ==
    /\ QueueDrained
    /\ pc = "encoded"
    /\ Len(subtree) = 2
    /\ Len(literal) = 1
    /\ Len(ident) = 1

(***************************************************************************)
(* C20.  Packing of the tagged index.                                      *)
(***************************************************************************)
\* FlatTree::new on subtrees with so many children of one kind that the
\* record index of the last child needs all but two bits of a word and the
\* one after it one bit more.
PackChildren == WordMod \div 4 + 1
PackTrees ==
    { Subtree(Delimiter(SpanA(1), SpanB(1), "Parenthesis"),
              [k \in 1 .. PackChildren |-> child]) :
        child \in Leaves(1, 1)
                    \union { Subtree(Delimiter(SpanA(1), SpanB(1), "Invisible"), << >>) } }

InitPack ==
    /\ L = 1
    /\ version = MaxVersion
    /\ tree \in PackTrees
    /\ pc = "new"
    /\ work = << >>
    /\ string_table = EmptyTable
    /\ subtree = << >>
    /\ literal = << >>
    /\ punct = << >>
    /\ ident = << >>
    /\ token_tree = << >>
    /\ text = << >>
    /\ cur = None
    /\ flat = None
    /\ decoder = None
    /\ reader = None
    /\ res = << >>
    /\ i = 0
    /\ result = None

NextPack ==
    \/ WriteEnqueueRoot
    \/ WriteDequeue
    \/ WriteChild
    \/ WriteReturn

SpecPack == InitPack /\ [][NextPack]_vars

\* The tag of a child, and the index of the record pushed last for its kind.
ChildTag(child) ==
    CASE child.tag = "Subtree" -> 0
      [] child.tag = "Literal" -> 1
      [] child.tag = "Punct" -> 2
      [] child.tag = "Ident" -> 3
LastIdx(child) ==
    CASE child.tag = "Subtree" -> Len(subtree) - 1
      [] child.tag = "Literal" -> Len(literal) - 1
      [] child.tag = "Punct" -> Len(punct) - 1
      [] child.tag = "Ident" -> Len(ident) - 1

\* C20: the entry written for a child is index << 2 | tag in a word, its low
\* two bits are the tag of the child's kind and the rest, shifted back, is
\* the index of the child's record, for every index the encoder assigns.
C20_PackingLossless ==
    (pc = "subtree" /\ cur # None /\ cur[1].k > 0) =>
        LET child == cur[1].subtree.token_trees[cur[1].k]
            entry == token_tree[cur[1].first_tt]
        IN /\ entry = AsU32(LastIdx(child) * 4 + ChildTag(child))
           /\ UnpackTag(entry) = ChildTag(child)
           /\ UnpackIdx(entry) = LastIdx(child)

\* The entry of a child whose record index has a bit that the shift drops.
C20_Witness ==
    /\ pc = "subtree"
    /\ cur # None
    /\ cur[1].k = PackChildren
    /\ Len(literal) = PackChildren
    /\ UnpackIdx(token_tree[cur[1].first_tt]) = 0

====
